---------------------------- MODULE Spec2Model ----------------------------
(***************************************************************************)
(* egaify: conversion of a decoded RGBA image to 16-colour EGA planar      *)
(* data.  The module models                                                *)
(*   - map_to_ega, the nearest-palette-entry search  (SpecQuant),          *)
(*   - convert_to_planar, the bit-plane packer       (SpecPlanar),         *)
(*   - main, one run of the tool from argv to exit   (Spec).               *)
(* Buffers are functions over 0..n-1, so every offset of the model is the  *)
(* offset the C code computes.                                             *)
(***************************************************************************)
EXTENDS Integers, Sequences, FiniteSets, TLC

VARIABLES
    pc,         \* position of the run / of the function under examination
    argc,       \* main: argument count
    width,      \* main, convert_to_planar: unsigned width
    height,     \* main, convert_to_planar: unsigned height
    image,      \* main: bytes decoded by lodepng (RGBA, 4 per pixel)
    indices,    \* vector<uint8_t> indices
    x,          \* loop counter x of the loop pc is in
    y,          \* loop counter y of the loop pc is in
    planar,     \* the malloc'ed plane buffer ("out" in convert_to_planar), or NULL
    file,       \* the file at output_path: [exists, data]
    outf,       \* state of FILE *outf: "none", "open", "closed"
    errlog,     \* diagnostics written to stderr, in order
    report,     \* byte counts printed on stdout, in order
    status,     \* <<>> while the process runs, <<exit status>> once it has ended
    nq,         \* history: number of pixels whose index has been stored
    np,         \* history: number of pixels packed into the plane buffer
    rgb,        \* map_to_ega: the pixel {r, g, b}
    i,          \* map_to_ega: loop counter
    best_dist,  \* map_to_ega: running best distance
    idx         \* map_to_ega: running best index

vars == <<pc, argc, width, height, image, indices, x, y, planar, file, outf,
          errlog, report, status, nq, np, rgb, i, best_dist, idx>>

quantVars == <<rgb, i, best_dist, idx>>

-----------------------------------------------------------------------------
(* Bounds of the model.                                                    *)

\* Pixel components examined are those within MaxJitter of a palette level
\* or of a midpoint between two palette levels.
MaxJitter == 1
\* Image widths run over 1..MaxWidth, heights over 1..MaxHeight.
MaxWidth == 16
MaxHeight == 2
\* main is started with 1..MaxArgc arguments (argv[0] included).
MaxArgc == 4

-----------------------------------------------------------------------------
(* Values standing for C values that are not numbers of the model.         *)

\* No buffer: a null pointer, or a vector before it holds anything.  Every
\* buffer the program allocates holds at least one byte.
NULL == <<>>
\* The file at output_path: whether it exists, and its bytes.
ABSENT == [exists |-> FALSE, data |-> <<>>]
\* 0xffffffffUL, the initial best_dist.  TLC's integers are 32-bit signed, so
\* the value is held as -1, the same 32 bits; DistLess compares against it as
\* the largest unsigned value.
UINT32_MAX == -1

-----------------------------------------------------------------------------
(* Bytes and bits.                                                         *)

Byte == 0..255

\* (v >> k) & 0x1
BitOf(v, k) == (v \div (2 ^ k)) % 2

\* "= (1 << k)" in place of "|= (1 << k)".
AssignBit(v, k) == 2 ^ k

\* v | (1 << k), for a byte v
OrBit(v, k) == IF BitOf(v, k) = 1 THEN v ELSE v + 2 ^ k

\* Number of elements of a buffer held as a function over 0..n-1.
Size(buf) == Cardinality(DOMAIN buf)

-----------------------------------------------------------------------------
(* The palette and the quantizer.                                          *)

ega_palette ==
    << <<0, 0, 0>>,         \* 0 black
       <<0, 0, 170>>,       \* 1 blue
       <<0, 170, 0>>,       \* 2 green
       <<0, 170, 170>>,     \* 3 cyan
       <<170, 0, 0>>,       \* 4 red
       <<170, 0, 170>>,     \* 5 magenta
       <<170, 85, 0>>,      \* 6 brown
       <<170, 170, 170>>,   \* 7 light grey
       <<85, 85, 85>>,      \* 8 dark grey
       <<85, 85, 255>>,     \* 9 bright blue
       <<85, 255, 85>>,     \* 10 bright green
       <<85, 255, 255>>,    \* 11 bright cyan
       <<255, 85, 85>>,     \* 12 bright red
       <<255, 85, 255>>,    \* 13 bright magenta
       <<255, 255, 85>>,    \* 14 yellow
       <<255, 255, 255>> >> \* 15 white

\* ega_palette[k] of the C code (0-based).
PaletteEntry(k) == ega_palette[k + 1]

\* colour_distance with the blue term forgotten.
colour_distance_no_blue(a, b) ==
    LET dr == a[1] - b[1]
        dg == a[2] - b[2]
    IN  dr * dr + dg * dg

colour_distance(a, b) ==
    LET dr == a[1] - b[1]
        dg == a[2] - b[2]
        db == a[3] - b[3]
    IN  dr * dr + dg * dg + db * db

\* "dist <= best_dist" in place of "dist < best_dist".
DistLessOrEqual(dist, best) == best = UINT32_MAX \/ dist <= best

\* dist < best_dist, in uint32_t
DistLess(dist, best) == best = UINT32_MAX \/ dist < best

\* One iteration of the loop of map_to_ega: from the running (idx, best_dist)
\* to the next, for palette entry k.
map_iter(p, k, st) ==
    LET dist == colour_distance(p, PaletteEntry(k))
    IN  IF DistLess(dist, st.best_dist)
        THEN [idx |-> k, best_dist |-> dist]
        ELSE st

RECURSIVE map_loop(_, _, _)
map_loop(p, k, st) ==
    IF k < 16 THEN map_loop(p, k + 1, map_iter(p, k, st)) ELSE st

map_to_ega(r, g, b) ==
    map_loop(<<r, g, b>>, 0, [idx |-> 0, best_dist |-> UINT32_MAX]).idx

-----------------------------------------------------------------------------
(* map_to_ega, step by step.                                               *)

\* Component values examined: the palette levels 0x00, 0x55, 0xAA, 0xFF, the
\* values halfway between two of them, and their neighbours.
Levels == {0, 42, 85, 127, 170, 212, 255}

Components ==
    {c \in Byte : \E l \in Levels : c - l <= MaxJitter /\ l - c <= MaxJitter}

InitQuant ==
    /\ pc = "map_to_ega"
    /\ rgb \in Components \X Components \X Components
    /\ i = 0 /\ idx = 0 /\ best_dist = 0
    /\ argc = 0 /\ width = 0 /\ height = 0
    /\ image = NULL /\ indices = NULL /\ planar = NULL
    /\ x = 0 /\ y = 0 /\ nq = 0 /\ np = 0
    /\ file = ABSENT /\ outf = "none" /\ errlog = <<>>
    /\ report = <<>> /\ status = <<>>

\* uint8_t idx = 0; uint32_t best_dist = 0xffffffffUL; ... i = 0
MapEnter ==
    /\ pc = "map_to_ega"
    /\ idx' = 0
    /\ best_dist' = UINT32_MAX
    /\ i' = 0
    /\ pc' = "map_loop"
    /\ UNCHANGED <<argc, width, height, image, indices, x, y, planar, file,
                   outf, errlog, report, status, nq, np, rgb>>

\* One pass through the body of the for loop, and i++.
MapIter ==
    /\ pc = "map_loop"
    /\ i < 16
    /\ LET st == map_iter(rgb, i, [idx |-> idx, best_dist |-> best_dist])
       IN  /\ idx' = st.idx
           /\ best_dist' = st.best_dist
    /\ i' = i + 1
    /\ UNCHANGED <<pc, argc, width, height, image, indices, x, y, planar, file,
                   outf, errlog, report, status, nq, np, rgb>>

\* The loop condition fails: return idx.
MapReturn ==
    /\ pc = "map_loop"
    /\ ~(i < 16)
    /\ pc' = "map_done"
    /\ UNCHANGED <<argc, width, height, image, indices, x, y, planar, file,
                   outf, errlog, report, status, nq, np, rgb, i, best_dist, idx>>

NextQuant == MapEnter \/ MapIter \/ MapReturn

SpecQuant == InitQuant /\ [][NextQuant]_vars

-----------------------------------------------------------------------------
(* convert_to_planar.                                                      *)
(* width, height and every offset are unsigned (32 bits): the C arithmetic *)
(* is exact as long as 4 * width * height stays below 2^32, which it does  *)
(* for every picture within MaxWidth and MaxHeight.                        *)

\* (width * height) / 8, bytes per plane
plane_size(w, h) == (w * h) \div 8

\* "x & 7" in place of "7 - (x & 7)": least significant bit first.
bit_of_lsb_first(px) == px % 8

\* 7 - (x & 7)
bit_of(px) == 7 - (px % 8)

\* "y * width + x / 8" in place of "(y * width + x) / 8".
byte_offset_unparenthesised(py, px, w) == py * w + px \div 8

\* (y * width + x) / 8
byte_offset(py, px, w) == (py * w + px) \div 8

\* plane * plane_size + byte_offset
plane_offset(p, ps, bo) == p * ps + bo

\* "y < height - 1" in place of "y < height".
more_rows_but_last(py, h) == py < h - 1

\* y < height, the condition of a row loop
more_rows(py, h) == py < h

\* The four passes of the plane loop for one pixel: out with bit "bit" of
\* byte plane * plane_size + byte_offset set in every plane whose bit of
\* pixel_index is 1.
pack_pixel(out, ind, w, h, py, px) ==
    LET pixel_index == ind[py * w + px] % 16
        bit         == bit_of(px)
        bo          == byte_offset(py, px, w)
        ps          == plane_size(w, h)
        hit         == {plane_offset(p, ps, bo) :
                           p \in {q \in 0..3 : BitOf(pixel_index, q) = 1}}
    IN  [o \in DOMAIN out |-> IF o \in hit THEN OrBit(out[o], bit) ELSE out[o]]

\* The accesses of one pass of the pixel loop of convert_to_planar are inside
\* the buffers; outside, the pass is undefined behaviour.
PackInBounds(out, ind, w, h, py, px) ==
    /\ py * w + px \in DOMAIN ind
    /\ \A p \in 0..3 :
          plane_offset(p, plane_size(w, h), byte_offset(py, px, w)) \in DOMAIN out

\* malloc(plane_size * 4) fails: the diagnostic, and exit(1).
ConvAllocFail ==
    /\ pc = "convert_to_planar"
    /\ errlog' = Append(errlog, "Failed to allocate planar buffer")
    /\ status' = <<1>>
    /\ pc' = "exit"
    /\ UNCHANGED <<argc, width, height, image, indices, x, y, planar, file,
                   outf, report, nq, np, quantVars>>

\* malloc(plane_size * 4) succeeds; memset(out, 0, plane_size * 4); y = 0
ConvAlloc ==
    /\ pc = "convert_to_planar"
    /\ planar' = [o \in 0..(plane_size(width, height) * 4 - 1) |-> 0]
    /\ y' = 0
    /\ pc' = "pack_rows"
    /\ UNCHANGED <<argc, width, height, image, indices, x, file, outf, errlog,
                   report, status, nq, np, quantVars>>

\* for (y ...; y < height; ...): enter the row (x = 0), or leave the loop.
PackRowTest ==
    /\ pc = "pack_rows"
    /\ IF more_rows(y, height)
       THEN x' = 0 /\ pc' = "pack_pixels"
       ELSE x' = x /\ pc' = "conv_return"
    /\ UNCHANGED <<argc, width, height, image, indices, y, planar, file, outf,
                   errlog, report, status, nq, np, quantVars>>

\* One pass through the body of the x loop, and x++.
PackPixel ==
    /\ pc = "pack_pixels"
    /\ x < width
    /\ PackInBounds(planar, indices, width, height, y, x)
    /\ planar' = pack_pixel(planar, indices, width, height, y, x)
    /\ np' = np + 1
    /\ x' = x + 1
    /\ UNCHANGED <<pc, argc, width, height, image, indices, y, file, outf,
                   errlog, report, status, nq, quantVars>>

\* x < width fails: y++, back to the row test.
PackRowEnd ==
    /\ pc = "pack_pixels"
    /\ ~(x < width)
    /\ y' = y + 1
    /\ pc' = "pack_rows"
    /\ UNCHANGED <<argc, width, height, image, indices, x, planar, file, outf,
                   errlog, report, status, nq, np, quantVars>>

\* return out;
ConvReturn ==
    /\ pc = "conv_return"
    /\ pc' = "fopen"
    /\ UNCHANGED <<argc, width, height, image, indices, x, y, planar, file,
                   outf, errlog, report, status, nq, np, quantVars>>

\* Index buffers handed to convert_to_planar: two values alternating, and one
\* pixel differing from all the others.  26 = 0x1A has bits above the low four.
IdxVals == {0, 6, 15, 26}

IndexBuffers(n) ==
    {[k \in 0..(n - 1) |-> IF k % 2 = 0 THEN u ELSE v] : u, v \in IdxVals}
    \cup
    {[k \in 0..(n - 1) |-> IF k = pos THEN v ELSE u] :
        u \in {0, 15}, v \in {1, 2, 4, 8, 9}, pos \in 0..(n - 1)}

\* The widths main lets through to convert_to_planar.
PlanarWidths == {w \in 1..MaxWidth : w % 8 = 0}

InitPlanar ==
    /\ pc = "convert_to_planar"
    /\ width \in PlanarWidths
    /\ height \in 1..MaxHeight
    /\ indices \in IndexBuffers(width * height)
    /\ nq = width * height
    /\ np = 0
    /\ planar = NULL
    /\ x = 0 /\ y = 0
    /\ argc = 3 /\ image = NULL
    /\ file = ABSENT /\ outf = "none" /\ errlog = <<>>
    /\ report = <<>> /\ status = <<>>
    /\ rgb = <<0, 0, 0>> /\ i = 0 /\ idx = 0 /\ best_dist = 0

NextPlanar ==
    \/ ConvAllocFail
    \/ ConvAlloc
    \/ PackRowTest
    \/ PackPixel
    \/ PackRowEnd
    \/ ConvReturn

SpecPlanar == InitPlanar /\ [][NextPlanar]_vars

-----------------------------------------------------------------------------
(* main.                                                                   *)

\* "width % 4" in place of "width % 8".
width_ok_mod4(w) == w % 4 = 0

\* (width % 8) != 0 is false
width_ok(w) == w % 8 = 0

\* 4 * (y * width + x), the offset of pixel (x, y) in the decoded image
pixel_offset(py, px, w) == 4 * (py * w + px)

\* The accesses of one pass of the pixel loop of main are inside the buffers;
\* outside, the pass is undefined behaviour.
QuantInBounds(img, ind, w, py, px) ==
    /\ \A c \in 0..2 : pixel_offset(py, px, w) + c \in DOMAIN img
    /\ py * w + px \in DOMAIN ind

\* Pixels of the images examined, as {r, g, b}: palette entries, a pixel
\* equidistant from black and red, and one that is no palette entry.
SampleColours == {<<0, 0, 0>>, <<255, 255, 255>>, <<85, 0, 0>>, <<90, 90, 250>>}

\* What lodepng::decode yields for a w by h picture: 4 bytes per pixel, R, G,
\* B, A.  The pictures examined alternate two colours, with any alpha.
Images(w, h) ==
    {[o \in 0..(4 * w * h - 1) |->
        LET c == IF (o \div 4) % 2 = 0 THEN c1 ELSE c2
        IN  IF o % 4 = 3 THEN a ELSE c[(o % 4) + 1]] :
     c1, c2 \in SampleColours, a \in {0, 255}}

Init ==
    /\ pc = "main"
    /\ argc \in 1..MaxArgc
    /\ width = 0 /\ height = 0
    /\ image = NULL /\ indices = NULL /\ planar = NULL
    /\ x = 0 /\ y = 0 /\ nq = 0 /\ np = 0
    /\ file = ABSENT /\ outf = "none" /\ errlog = <<>>
    /\ report = <<>> /\ status = <<>>
    /\ rgb = <<0, 0, 0>> /\ i = 0 /\ idx = 0 /\ best_dist = 0

\* if (argc < 3) { usage; return 1; }
CheckArgs ==
    /\ pc = "main"
    /\ IF argc < 3
       THEN /\ errlog' = Append(errlog, "Usage")
            /\ status' = <<1>>
            /\ pc' = "exit"
       ELSE /\ pc' = "load_file"
            /\ UNCHANGED <<errlog, status>>
    /\ UNCHANGED <<argc, width, height, image, indices, x, y, planar, file,
                   outf, report, nq, np, quantVars>>

\* lodepng::load_file returns an error.
LoadFail ==
    /\ pc = "load_file"
    /\ errlog' = Append(errlog, "Error loading file")
    /\ status' = <<1>>
    /\ pc' = "exit"
    /\ UNCHANGED <<argc, width, height, image, indices, x, y, planar, file,
                   outf, report, nq, np, quantVars>>

\* lodepng::load_file returns 0.
LoadFile ==
    /\ pc = "load_file"
    /\ pc' = "decode"
    /\ UNCHANGED <<argc, width, height, image, indices, x, y, planar, file,
                   outf, errlog, report, status, nq, np, quantVars>>

\* lodepng::decode returns an error.
DecodeFail ==
    /\ pc = "decode"
    /\ errlog' = Append(errlog, "Error decoding PNG")
    /\ status' = <<1>>
    /\ pc' = "exit"
    /\ UNCHANGED <<argc, width, height, image, indices, x, y, planar, file,
                   outf, report, nq, np, quantVars>>

\* lodepng::decode returns 0 and sets image, width and height.
Decode ==
    /\ pc = "decode"
    /\ \E w \in 1..MaxWidth, h \in 1..MaxHeight :
          /\ width' = w
          /\ height' = h
          /\ image' \in Images(w, h)
    /\ pc' = "width_check"
    /\ UNCHANGED <<argc, indices, x, y, planar, file, outf, errlog, report,
                   status, nq, np, quantVars>>

\* if ((width % 8) != 0) { diagnostic; return 1; }
\* vector<uint8_t> indices(width * height); y = 0
WidthCheck ==
    /\ pc = "width_check"
    /\ IF ~width_ok(width)
       THEN /\ errlog' = Append(errlog, "Width must be a multiple of 8")
            /\ status' = <<1>>
            /\ pc' = "exit"
            /\ UNCHANGED <<indices, y>>
       ELSE /\ indices' = [n \in 0..(width * height - 1) |-> 0]
            /\ y' = 0
            /\ pc' = "quant_rows"
            /\ UNCHANGED <<errlog, status>>
    /\ UNCHANGED <<argc, width, height, image, x, planar, file, outf, report,
                   nq, np, quantVars>>

\* for (y ...; y < height; ...): enter the row (x = 0), or go on to
\* convert_to_planar(indices, width, height).
QuantRowTest ==
    /\ pc = "quant_rows"
    /\ IF more_rows(y, height)
       THEN x' = 0 /\ pc' = "quant_pixels"
       ELSE x' = x /\ pc' = "convert_to_planar"
    /\ UNCHANGED <<argc, width, height, image, indices, y, planar, file, outf,
                   errlog, report, status, nq, np, quantVars>>

\* One pass through the body of the x loop, and x++.
QuantPixel ==
    /\ pc = "quant_pixels"
    /\ x < width
    /\ QuantInBounds(image, indices, width, y, x)
    /\ LET o == pixel_offset(y, x, width)
       IN  indices' = [indices EXCEPT
                          ![y * width + x] =
                              map_to_ega(image[o], image[o + 1], image[o + 2])]
    /\ nq' = nq + 1
    /\ x' = x + 1
    /\ UNCHANGED <<pc, argc, width, height, image, y, planar, file, outf,
                   errlog, report, status, np, quantVars>>

\* x < width fails: y++, back to the row test.
QuantRowEnd ==
    /\ pc = "quant_pixels"
    /\ ~(x < width)
    /\ y' = y + 1
    /\ pc' = "quant_rows"
    /\ UNCHANGED <<argc, width, height, image, indices, x, planar, file, outf,
                   errlog, report, status, nq, np, quantVars>>

\* plane_size * 4
total_size(w, h) == plane_size(w, h) * 4

\* fopen(output_path, "wb") returns NULL: diagnostic, free(planar), return 1.
FopenFail ==
    /\ pc = "fopen"
    /\ errlog' = Append(errlog, "Error opening output file")
    /\ planar' = NULL
    /\ status' = <<1>>
    /\ pc' = "exit"
    /\ UNCHANGED <<argc, width, height, image, indices, x, y, file, outf,
                   report, nq, np, quantVars>>

\* fopen(output_path, "wb") succeeds: the file exists and is empty.
Fopen ==
    /\ pc = "fopen"
    /\ file' = [exists |-> TRUE, data |-> <<>>]
    /\ outf' = "open"
    /\ pc' = "fwrite"
    /\ UNCHANGED <<argc, width, height, image, indices, x, y, planar, errlog,
                   report, status, nq, np, quantVars>>

\* fwrite(planar, 1, total_size, outf); fclose(outf): k of the total_size
\* bytes reach the file (all of them, or fewer when the device fails or
\* fills up).  Neither return value is looked at.
WriteAndClose ==
    /\ pc = "fwrite"
    /\ \E k \in 0..total_size(width, height) :
          file' = [exists |-> TRUE, data |-> [o \in 0..(k - 1) |-> planar[o]]]
    /\ outf' = "closed"
    /\ pc' = "written"
    /\ UNCHANGED <<argc, width, height, image, indices, x, y, planar, errlog,
                   report, status, nq, np, quantVars>>

\* free(planar); printf("Wrote %zu bytes ...", total_size, ...); return 0;
Finish ==
    /\ pc = "written"
    /\ planar' = NULL
    /\ report' = Append(report, total_size(width, height))
    /\ status' = <<0>>
    /\ pc' = "exit"
    /\ UNCHANGED <<argc, width, height, image, indices, x, y, file, outf,
                   errlog, nq, np, quantVars>>

Next ==
    \/ CheckArgs
    \/ LoadFail
    \/ LoadFile
    \/ DecodeFail
    \/ Decode
    \/ WidthCheck
    \/ QuantRowTest
    \/ QuantPixel
    \/ QuantRowEnd
    \/ ConvAllocFail
    \/ ConvAlloc
    \/ PackRowTest
    \/ PackPixel
    \/ PackRowEnd
    \/ ConvReturn
    \/ FopenFail
    \/ Fopen
    \/ WriteAndClose
    \/ Finish

Spec == Init /\ [][Next]_vars

-----------------------------------------------------------------------------
(* Properties of map_to_ega, under SpecQuant.                              *)

\* (r-r')^2 + (g-g')^2 + (b-b')^2 for palette entry k, written out.
SqDist(p, k) ==
    (p[1] - ega_palette[k + 1][1]) * (p[1] - ega_palette[k + 1][1])
    + (p[2] - ega_palette[k + 1][2]) * (p[2] - ega_palette[k + 1][2])
    + (p[3] - ega_palette[k + 1][3]) * (p[3] - ega_palette[k + 1][3])

\* C1: for every pixel, map_to_ega returns an index in 0..15 whose palette
\* entry is at the least squared distance from the pixel, and of the entries
\* at that least distance it returns the one of lowest index.  The loop run
\* step by step and map_to_ega evaluated in one go return the same index.
C1_NearestLowestIndex ==
    pc = "map_done" =>
        /\ idx \in 0..15
        /\ \A k \in 0..15 : SqDist(rgb, idx) <= SqDist(rgb, k)
        /\ \A k \in 0..15 : k < idx => SqDist(rgb, k) > SqDist(rgb, idx)
        /\ map_to_ega(rgb[1], rgb[2], rgb[3]) = idx

\* map_to_ega has returned for a pixel with two palette entries at the least
\* distance.
C1_TieReturned ==
    /\ pc = "map_done"
    /\ \E k \in 0..15 : k # idx /\ SqDist(rgb, k) = SqDist(rgb, idx)

\* C2: for the pixel of palette entry k, map_to_ega returns k; no other
\* palette entry is at distance 0 from it.
C2_PaletteExact ==
    pc = "map_done" =>
        \A k \in 0..15 :
            rgb = PaletteEntry(k) =>
                /\ idx = k
                /\ \A j \in 0..15 : SqDist(rgb, j) = 0 => j = k

\* map_to_ega has returned 9 for bright blue, palette entry 9.
C2_BrightBlueReturned ==
    /\ pc = "map_done"
    /\ rgb = PaletteEntry(9)
    /\ idx = 9

-----------------------------------------------------------------------------
(* Properties of convert_to_planar, under SpecPlanar.                      *)

\* The index buffer 0, 15, 0, 15, ...
BlackWhite(n) == [k \in 0..(n - 1) |-> IF k % 2 = 0 THEN 0 ELSE 15]

\* C3: the buffer convert_to_planar returns is 4 planes of width*height/8
\* bytes, plane 0 first; bit 7 - x mod 8 of byte p*plane_size + (y*width+x)/8
\* is bit p of indices[y*width+x] & 0xF, for every pixel and plane (so every
\* bit of the buffer is the bit of one pixel, and no other bit is set).  For
\* the 8x1 buffer 0,15,0,15,0,15,0,15 the bytes are 55 55 55 55 (hex).
C3_PlanarLayout ==
    pc = "fopen" =>
        LET ps == (width * height) \div 8
        IN  /\ DOMAIN planar = 0..(4 * ps - 1)
            /\ \A o \in DOMAIN planar : planar[o] \in Byte
            /\ \A py \in 0..(height - 1), px \in 0..(width - 1), p \in 0..3 :
                  BitOf(planar[p * ps + (py * width + px) \div 8], 7 - (px % 8))
                  = BitOf(indices[py * width + px] % 16, p)
            /\ (width = 8 /\ height = 1 /\ indices = BlackWhite(8))
                  => planar = [o \in 0..3 |-> 85]

\* convert_to_planar has returned 55 55 55 55 for the 8x1 buffer 0,15,...
C3_BlackWhitePacked ==
    /\ pc = "fopen"
    /\ width = 8 /\ height = 1
    /\ indices = BlackWhite(8)
    /\ planar = [o \in 0..3 |-> 85]

\* The inverse of the packing: pixel n from bit 7 - (x mod 8) of byte n/8 of
\* each plane, plane p giving bit p.
Unpack(buf, w, h) ==
    [n \in 0..(w * h - 1) |->
        LET ps == (w * h) \div 8
            b(p) == BitOf(buf[p * ps + n \div 8], 7 - ((n % w) % 8))
        IN  b(0) + 2 * b(1) + 4 * b(2) + 8 * b(3)]

\* C4: for an index buffer with values in 0..15, unpacking the buffer
\* convert_to_planar returns gives back every index; no two pixels have the
\* same byte and bit.
C4_RoundTrip ==
    (pc = "fopen" /\ \A n \in DOMAIN indices : indices[n] \in 0..15) =>
        /\ Unpack(planar, width, height) = indices
        /\ \A n1, n2 \in 0..(width * height - 1) :
              n1 # n2 =>
                  <<byte_offset(n1 \div width, n1 % width, width),
                    bit_of(n1 % width)>>
                  # <<byte_offset(n2 \div width, n2 % width, width),
                      bit_of(n2 % width)>>

\* convert_to_planar has returned for a 16x2 buffer of 15s with one 9 in the
\* second row, and unpacking gives the buffer back.
C4_SpotUnpacked ==
    /\ pc = "fopen"
    /\ width = 16 /\ height = 2
    /\ indices = [k \in 0..31 |-> IF k = 17 THEN 9 ELSE 15]
    /\ Unpack(planar, width, height) = indices

-----------------------------------------------------------------------------
(* Properties of a run of main, under Spec.                                *)

\* lodepng::decode has set image, width and height.
Decoded == image # NULL

\* The file at output_path holds all the bytes of the four planes.
OutputComplete ==
    /\ Decoded
    /\ file.exists
    /\ Size(file.data) = 4 * ((width * height) \div 8)

\* C5: a run that ends with status 0 for a width that is a multiple of 8
\* has written an output of exactly 4 * width * height / 8 bytes.
C5_SizeLaw ==
    status = <<0>> =>
        /\ width % 8 = 0
        /\ file.exists
        /\ Size(file.data) = (4 * width * height) \div 8

\* C6: when the decoded width is no multiple of 8, the run gets no further
\* than the width check: it ends with the diagnostic of the width check and
\* status 1, and the output file is never opened, created or written.  When
\* the width is a multiple of 8, the width check writes no diagnostic and
\* the run goes on past it.
C6_WidthConstraint ==
    Decoded =>
        /\ width % 8 # 0 =>
              /\ pc \in {"width_check", "exit"}
              /\ outf = "none"
              /\ file = ABSENT
              /\ pc = "exit" =>
                    /\ errlog = <<"Width must be a multiple of 8">>
                    /\ status = <<1>>
        /\ width % 8 = 0 =>
              /\ \A n \in 1..Len(errlog) :
                    errlog[n] # "Width must be a multiple of 8"
              /\ pc = "exit" => indices # NULL

\* A run has been rejected for its width of 12.
C6_Width12Rejected ==
    /\ pc = "exit"
    /\ width = 12
    /\ errlog = <<"Width must be a multiple of 8">>
    /\ status = <<1>>
    /\ file = ABSENT

\* C7: at exit, a run in which anything failed (it ends with a status other
\* than 0, or the output did not reach the file whole) has written a
\* diagnostic and ends with a status other than 0; and the output file is
\* complete or was not written at all.
C7_FailuresReportedNoPartial ==
    pc = "exit" =>
        /\ (status # <<0>> \/ ~OutputComplete) =>
              (errlog # <<>> /\ status # <<0>>)
        /\ ~file.exists \/ OutputComplete

\* C8: on a run that ends with status 0, the byte count reported is the
\* number of bytes in the output file.
C8_ReportedIsWritten ==
    status = <<0>> => report = <<Size(file.data)>>

\* C9, as stated: the index buffer is completely produced and completely
\* consumed by the packer before the plane buffer is allocated, and the
\* plane buffer is completely produced before the output is written.
C9_ConsumedBeforeAllocated ==
    /\ planar # NULL => (nq = width * height /\ np = width * height)
    /\ outf # "none" => np = width * height

\* C9, amended: the index buffer is completely produced before the plane
\* buffer is allocated and before the packer reads any of it; the plane
\* buffer is allocated before the packer consumes the first index; the
\* index buffer is completely consumed and the plane buffer completely
\* produced before the output file is opened or written.
C9_BufferOrder ==
    /\ planar # NULL => nq = width * height
    /\ pc \in {"pack_rows", "pack_pixels"} =>
          (nq = width * height /\ planar # NULL)
    /\ np > 0 => nq = width * height
    /\ (outf # "none" \/ file.exists \/ pc = "fwrite") =>
          (nq = width * height /\ np = width * height)
    /\ np <= nq /\ nq <= width * height

\* The packer is part of the way through a picture.
C9_PackingUnderWay ==
    /\ pc = "pack_pixels"
    /\ Decoded
    /\ planar # NULL
    /\ 0 < np /\ np < width * height
    /\ nq = width * height

\* C10: for a width that is a multiple of 8 and 4*width*height below 2^32,
\* every access of the two pixel loops is in bounds: the pixel read offset
\* 4*(y*width+x)+2 is below 4*width*height, the size of the image; the
\* index slot y*width+x is below width*height, the size of the index
\* buffer; and for each plane p the byte written is inside
\* [p*plane_size, (p+1)*plane_size) of the 4*plane_size-byte plane buffer.
C10_AccessesInBounds ==
    (Decoded /\ width % 8 = 0 /\ width * height < 2 ^ 30) =>
        /\ (pc = "quant_pixels" /\ x < width) =>
              /\ y < height
              /\ Size(image) = 4 * width * height
              /\ Size(indices) = width * height
              /\ pixel_offset(y, x, width) + 2 < 4 * width * height
              /\ y * width + x < width * height
              /\ QuantInBounds(image, indices, width, y, x)
        /\ (pc = "pack_pixels" /\ x < width) =>
              LET ps == plane_size(width, height)
              IN  /\ y < height
                  /\ Size(planar) = 4 * ps
                  /\ y * width + x < Size(indices)
                  /\ \A p \in 0..3 :
                        LET o == plane_offset(p, ps, byte_offset(y, x, width))
                        IN  p * ps <= o /\ o < (p + 1) * ps
                  /\ PackInBounds(planar, indices, width, height, y, x)

\* The packer is at the last pixel of a 16x2 picture.
C10_LastPixel ==
    /\ pc = "pack_pixels"
    /\ Decoded
    /\ width = 16 /\ height = 2
    /\ x = 15 /\ y = 1

=============================================================================
